---------------------------- MODULE Spec2Model ----------------------------
(***************************************************************************)
(* covid_19_plot.py: the pipeline of main().  The module is loaded (the    *)
(* population table is read), the command line is parsed, the wide tables  *)
(* of the selected metrics are read row by row and aggregated, and, with   *)
(* --compare, the series are aligned on the first crossing of 100 cases    *)
(* before they are handed to the renderer.                                 *)
(*                                                                         *)
(* A string (a cell or a column name of a file, an area name, a dictionary *)
(* key, a label) is the sequence of its code points: "A/1" is              *)
(* <<65, 47, 49>>.  A calendar date is <<year, month, day>>, None is <<>>. *)
(* A Python int is [int |-> n], a Python float is the double               *)
(* [sign, mant, exp]; ints are those of 32 bits.  A Python dict is a       *)
(* record [keys, val]: keys in insertion order, val the mapping.  The      *)
(* tables have the columns the code pops and a cell for every column; Lat  *)
(* and Long are dropped unread.                                            *)
(***************************************************************************)
EXTENDS Integers, Sequences, FiniteSets, TLC

VARIABLES
    argv,        \* sys.argv[1:], as the options it spells
    files,       \* the wide tables on disk, by metric
    popfile,     \* data/population.csv, its rows
    pc,          \* position in the program
    POPULATION,  \* the module-level dict
    args,        \* parse_arguments' namespace
    data,        \* get_data's data
    cat,         \* get_data: index in Categories of the file being read (4: none left)
    rowIdx,      \* get_data_from_file: the row the reader yields next
    sub,         \* get_data_from_file's data
    shifts,      \* prepare_data's shifts
    prepared,    \* what prepare_data returned: [data, meta]
    exit,        \* how the process ended: [how, status, ...]
    filesRead,   \* files opened so far
    called,      \* prepare_data, plot, show: those invoked so far
    rescaled     \* areas of which a count has been divided by the population

vars == <<argv, files, popfile, pc, POPULATION, args, data, cat, rowIdx, sub,
          shifts, prepared, exit, filesRead, called, rescaled>>

-----------------------------------------------------------------------------
(* Program constants *)

COMPARE_CONSTANT == 100

PER_CAPITA == 100000

Categories == <<"confirmed", "deaths", "recovered">>

None == <<>>

\* "Switzerland"
Switzerland == <<83, 119, 105, 116, 122, 101, 114, 108, 97, 110, 100>>

\* the " - " of f"{country} - {state}"
Separator == <<32, 45, 32>>

-----------------------------------------------------------------------------
(* Python built-ins: lists *)

Min2(a, b) == IF a < b THEN a ELSE b

Max2(a, b) == IF a > b THEN a ELSE b

\* a slice bound i of a sequence of length n, as Python clamps it
PyIndex(i, n) == IF i < 0 THEN Max2(n + i, 0) ELSE Min2(i, n)

\* s[lo:hi]
PySlice(s, lo, hi) ==
    LET a == PyIndex(lo, Len(s))
        b == PyIndex(hi, Len(s))
    IN  IF a >= b THEN <<>> ELSE SubSeq(s, a + 1, b)

\* [i for i in range(n)]
Range(n) == [i \in 1..n |-> i - 1]

(* dicts *)
EmptyDict == [keys |-> <<>>, val |-> <<>>]

Has(d, k) == k \in DOMAIN d.val

\* d[k] = v
Put(d, k, v) ==
    [keys |-> IF Has(d, k) THEN d.keys ELSE Append(d.keys, k),
     val  |-> (k :> v) @@ d.val]

-----------------------------------------------------------------------------
(* Python built-ins: strings *)

\* the characters of str.isspace(), which strip() removes
WhiteSpace ==
    {9, 10, 11, 12, 13, 28, 29, 30, 31, 32, 133, 160, 5760, 8232, 8233, 8239,
     8287, 12288} \cup (8192..8202)

\* s without the characters of ws at its two ends
Trim(s, ws) ==
    LET kept == { i \in DOMAIN s : s[i] \notin ws }
    IN  IF kept = {} THEN <<>>
        ELSE SubSeq(s, CHOOSE i \in kept : \A j \in kept : i <= j,
                       CHOOSE i \in kept : \A j \in kept : j <= i)

\* str.strip()
Strip(s) == Trim(s, WhiteSpace)

\* s.split(sep), sep of one character
Split(s, sep) ==
    LET IsSep(i) == s[i] = sep
        cuts == <<0>> \o SelectSeq([i \in 1..Len(s) |-> i], IsSep) \o <<Len(s) + 1>>
    IN  [k \in 1..(Len(cuts) - 1) |-> SubSeq(s, cuts[k] + 1, cuts[k + 1] - 1)]

\* the zeros of the decimal digits of Unicode 14; the nine code points after
\* each are its digits 1 to 9
DigitZeros ==
    {48, 1632, 1776, 1984, 2406, 2534, 2662, 2790, 2918, 3046, 3174, 3302, 3430,
     3558, 3664, 3792, 3872, 4160, 4240, 6112, 6160, 6470, 6608, 6784, 6800,
     6992, 7088, 7232, 7248, 42528, 43216, 43264, 43472, 43504, 43600, 44016,
     65296, 66720, 68912, 69734, 69872, 69942, 70096, 70384, 70736, 70864,
     71248, 71360, 71472, 71904, 72016, 72784, 73040, 73120, 92768, 92864,
     93008, 120782, 120792, 120802, 120812, 120822, 123200, 123632, 125264,
     130032}

IsDigit(c) == \E z \in DigitZeros : c \in z..(z + 9)

DigitValue(c) == c - (CHOOSE z \in DigitZeros : c \in z..(z + 9))

\* the white space int() skips: the file separators 28 to 31 are not of it
IntSpace == WhiteSpace \ (28..31)

\* the largest int of 32 bits, as its digits
MaxDigits == <<2, 1, 4, 7, 4, 8, 3, 6, 4, 7>>

\* at most ten digits, the first not 0, against MaxDigits
DigitsLeq(ds, bound) ==
    \/ Len(ds) < Len(bound)
    \/ /\ Len(ds) = Len(bound)
       /\ \/ ds = bound
          \/ \E i \in 1..Len(ds) : ds[i] < bound[i] /\ \A j \in 1..(i - 1) : ds[j] = bound[j]

DigitsToInt(ds) ==
    LET F[i \in 0..Len(ds)] == IF i = 0 THEN 0 ELSE F[i - 1] * 10 + ds[i]
    IN  F[Len(ds)]

\* int(s): [raised, value, wide]; raised for the ValueError, wide 1 or -1 in
\* place of a value above or below the ints of 32 bits
PyInt(s) ==
    LET t       == Trim(s, IntSpace)
        signed  == t # <<>> /\ t[1] \in {43, 45}
        body    == IF signed THEN Tail(t) ELSE t
        n       == Len(body)
        Between(i) == i > 1 /\ i < n /\ IsDigit(body[i - 1]) /\ IsDigit(body[i + 1])
        valid   == /\ n > 0
                   /\ \A i \in 1..n : IsDigit(body[i]) \/ (body[i] = 95 /\ Between(i))
        digits  == SelectSeq(body, IsDigit)
        ds      == [i \in 1..Len(digits) |-> DigitValue(digits[i])]
        nonzero == { i \in 1..Len(ds) : ds[i] # 0 }
        sig     == IF nonzero = {} THEN <<>>
                   ELSE SubSeq(ds, CHOOSE i \in nonzero : \A j \in nonzero : i <= j, Len(ds))
        minus   == signed /\ t[1] = 45
    IN  IF ~valid THEN [raised |-> TRUE, value |-> 0, wide |-> 0]
        ELSE IF DigitsLeq(sig, MaxDigits)
             THEN [raised |-> FALSE, wide |-> 0,
                   value |-> IF minus THEN 0 - DigitsToInt(sig) ELSE DigitsToInt(sig)]
             ELSE IF minus /\ sig = <<2, 1, 4, 7, 4, 8, 3, 6, 4, 8>>
                  THEN [raised |-> FALSE, wide |-> 0, value |-> (0 - 2147483647) - 1]
                  ELSE [raised |-> FALSE, value |-> 0, wide |-> IF minus THEN -1 ELSE 1]

RECURSIVE Digits(_)
Digits(n) == IF n < 10 THEN <<48 + n>> ELSE Append(Digits(n \div 10), 48 + (n % 10))

\* str(n), f"{n}"
Str(n) == IF n < 0 THEN <<45>> \o Digits(0 - n) ELSE Digits(n)

\* "%02d" % n
Pad2(n) == IF n < 10 THEN <<48>> \o Digits(n) ELSE Digits(n)

-----------------------------------------------------------------------------
(* Python built-ins: dates *)

IsLeap(year) == year % 4 = 0 /\ (year % 100 # 0 \/ year % 400 = 0)

DaysInMonth(year, month) ==
    IF month = 2 THEN (IF IsLeap(year) THEN 29 ELSE 28)
    ELSE IF month \in {4, 6, 9, 11} THEN 30 ELSE 31

DateError(error) == [raised |-> TRUE, error |-> error, date |-> <<>>]

\* datetime.date(year, month, day) of three int()s, the ValueError of an
\* int() first
Date(year, month, day) ==
    IF year.raised \/ month.raised \/ day.raised THEN DateError("ValueError")
    ELSE IF year.wide # 0 \/ month.wide # 0 \/ day.wide # 0 THEN DateError("OverflowError")
    ELSE IF \/ year.value \notin 1..9999
            \/ month.value \notin 1..12
            \/ day.value \notin 1..DaysInMonth(year.value, month.value)
         THEN DateError("ValueError")
         ELSE [raised |-> FALSE, error |-> "",
               date |-> <<year.value, month.value, day.value>>]

\* lines 133-134: month, day, year = date.split("/") and
\* datetime.date(int(f"20{year}"), int(month), int(day))
ParseDate(key) ==
    LET parts == Split(key, 47)
    IN  IF Len(parts) # 3 THEN DateError("ValueError")
        ELSE Date(PyInt(<<50, 48>> \o parts[3]), PyInt(parts[1]), PyInt(parts[2]))

\* date < other
DateLess(d, e) ==
    \/ d[1] < e[1]
    \/ d[1] = e[1] /\ d[2] < e[2]
    \/ d[1] = e[1] /\ d[2] = e[2] /\ d[3] < e[3]

\* date.strftime("%Y-%m-%d"); the C library leaves a year below 1000 unpadded
DateLabel(date) == Str(date[1]) \o <<45>> \o Pad2(date[2]) \o <<45>> \o Pad2(date[3])

\* f"d{i}"
DayLabel(i) == <<100>> \o Str(i)

-----------------------------------------------------------------------------
(* Python built-ins: floats.  A double is [sign, mant, exp] for                *)
(* (-1)^sign * mant * 2^exp, mant = 0 or 2^52 <= mant < 2^53; the doubles of   *)
(* this model are the normal ones.  mant and the wider intermediate results    *)
(* are natural numbers below 2^72 held in four limbs of 18 bits,               *)
(* <<a1, a2, a3, a4>> for a1 + a2 * 2^18 + a3 * 2^36 + a4 * 2^54.              *)

LIMB == 2^18

WZero == <<0, 0, 0, 0>>

WOne == <<1, 0, 0, 0>>

Limb(a, n) == IF n \in 1..4 THEN a[n] ELSE 0

WLess(a, b) ==
    \E n \in 1..4 : a[n] < b[n] /\ \A m \in (n + 1)..4 : a[m] = b[m]

WAdd(a, b) ==
    LET s1 == a[1] + b[1]
        s2 == a[2] + b[2] + (s1 \div LIMB)
        s3 == a[3] + b[3] + (s2 \div LIMB)
        s4 == a[4] + b[4] + (s3 \div LIMB)
    IN  <<s1 % LIMB, s2 % LIMB, s3 % LIMB, s4 % LIMB>>

\* a - b for a >= b
WSub(a, b) ==
    LET s1 == a[1] - b[1]
        s2 == a[2] - b[2] + (s1 \div LIMB)
        s3 == a[3] - b[3] + (s2 \div LIMB)
        s4 == a[4] - b[4] + (s3 \div LIMB)
    IN  <<s1 % LIMB, s2 % LIMB, s3 % LIMB, s4 % LIMB>>

\* a * t for t < 2^12
WMul(a, t) ==
    LET s1 == a[1] * t
        s2 == a[2] * t + (s1 \div LIMB)
        s3 == a[3] * t + (s2 \div LIMB)
        s4 == a[4] * t + (s3 \div LIMB)
    IN  <<s1 % LIMB, s2 % LIMB, s3 % LIMB, s4 % LIMB>>

WOdd(a) == a[1] % 2 = 1

\* the lowest bit set: the bits shifted out before were not all zero
WJam(a, sticky) == IF sticky /\ ~WOdd(a) THEN <<a[1] + 1, a[2], a[3], a[4]>> ELSE a

\* the number of bits of n < 2^18
BitLength(n) == CHOOSE k \in 0..18 : n < 2^k /\ (k = 0 \/ n >= 2^(k - 1))

WBits(a) ==
    IF a = WZero THEN 0
    ELSE LET top == CHOOSE n \in 1..4 : a[n] # 0 /\ \A m \in (n + 1)..4 : a[m] = 0
         IN  18 * (top - 1) + BitLength(a[top])

\* a * 2^k, which has to stay below 2^72
WShl(a, k) ==
    LET j == k \div 18
        i == k % 18
    IN  [n \in 1..4 |-> (Limb(a, n - j) % 2^(18 - i)) * 2^i
                        + (Limb(a, n - j - 1) \div 2^(18 - i))]

\* a shifted right by k bits, and whether a bit that was shifted out was set
WShr(a, k) ==
    LET j == k \div 18
        i == k % 18
    IN  [kept   |-> [n \in 1..4 |-> (Limb(a, n + j) \div 2^i)
                                    + (Limb(a, n + j + 1) % 2^i) * 2^(18 - i)],
         sticky |-> \/ \E n \in 1..4 : n <= j /\ a[n] # 0
                    \/ Limb(a, j + 1) % 2^i # 0]

\* a Python float: (-1)^sign * mant * 2^exp, the mantissa zero or of 53 bits
Float(sign, mant, exp) == [sign |-> sign, mant |-> mant, exp |-> exp]

FloatZero(sign) == Float(sign, WZero, 0)

IsZero(f) == f.mant = WZero

\* the double nearest to (-1)^sign * w * 2^exp, ties to the even mantissa; the
\* lowest bit of a w of 55 bits or more may stand for any bits below it
RoundToDouble(sign, w, exp) ==
    LET bits == WBits(w)
    IN  IF bits = 0 THEN FloatZero(sign)
        ELSE IF bits <= 53 THEN Float(sign, WShl(w, 53 - bits), exp - (53 - bits))
        ELSE LET k     == bits - 53
                 most  == WShr(w, k - 1)
                 round == WOdd(most.kept)
                 kept  == WShr(most.kept, 1).kept
                 up    == round /\ (most.sticky \/ WOdd(kept))
                 m     == IF up THEN WAdd(kept, WOne) ELSE kept
             IN  IF WBits(m) = 54
                 THEN Float(sign, WShr(m, 1).kept, exp + k + 1)
                 ELSE Float(sign, m, exp + k)

\* float(n)
FloatOfInt(n) ==
    LET mag == IF n < 0 THEN 0 - n ELSE n
    IN  RoundToDouble(IF n < 0 THEN 1 ELSE 0,
                      <<mag % LIMB, mag \div LIMB, 0, 0>>, 0)

\* eleven more bits of the quotient q of a division by d of 53 bits, r the
\* remainder: the digit is estimated from the leading limbs and settled on
\* the whole numbers
DivStep(s, d) ==
    LET r11 == WShl(s.r, 11)
        est == (s.r[3] * 2^11) \div d[3]
        t   == CHOOSE c \in (est - 1)..(est + 1) :
                   /\ c >= 0
                   /\ ~WLess(r11, WMul(d, c))
                   /\ WLess(r11, WAdd(WMul(d, c), d))
    IN  [q |-> WAdd(WShl(s.q, 11), <<t, 0, 0, 0>>), r |-> WSub(r11, WMul(d, t))]

\* a / b of two floats, b not zero: 55 bits of the quotient of the mantissas
\* after its leading bit, and the remainder as the lowest bit
FloatDiv(a, b) ==
    LET sign == (a.sign + b.sign) % 2
        n    == a.mant
        d    == b.mant
        s0   == IF WLess(n, d) THEN [q |-> WZero, r |-> n] ELSE [q |-> WOne, r |-> WSub(n, d)]
        s    == DivStep(DivStep(DivStep(DivStep(DivStep(s0, d), d), d), d), d)
    IN  IF IsZero(a) THEN FloatZero(sign)
        ELSE RoundToDouble(sign, WJam(s.q, s.r # WZero), a.exp - b.exp - 55)

\* a + b of two floats, on three bits more than the mantissas have
FloatAdd(a, b) ==
    IF IsZero(a) THEN (IF IsZero(b) THEN FloatZero(IF a.sign = 1 /\ b.sign = 1 THEN 1 ELSE 0) ELSE b)
    ELSE IF IsZero(b) THEN a
    ELSE LET big   == IF a.exp >= b.exp THEN a ELSE b
             small == IF a.exp >= b.exp THEN b ELSE a
             x     == WShl(big.mant, 3)
             low   == WShr(WShl(small.mant, 3), big.exp - small.exp)
             y     == WJam(low.kept, low.sticky)
         IN  IF big.sign = small.sign
             THEN RoundToDouble(big.sign, WAdd(x, y), big.exp - 3)
             ELSE IF x = y THEN FloatZero(0)
                  ELSE IF WLess(y, x)
                       THEN RoundToDouble(big.sign, WSub(x, y), big.exp - 3)
                       ELSE RoundToDouble(small.sign, WSub(y, x), big.exp - 3)

MagLess(a, b) ==
    IF IsZero(b) THEN FALSE
    ELSE IF IsZero(a) THEN TRUE
    ELSE a.exp < b.exp \/ (a.exp = b.exp /\ WLess(a.mant, b.mant))

\* a < b of two floats
FloatLess(a, b) ==
    IF a.sign = b.sign
    THEN (IF a.sign = 0 THEN MagLess(a, b) ELSE MagLess(b, a))
    ELSE a.sign = 1 /\ ~(IsZero(a) /\ IsZero(b))

-----------------------------------------------------------------------------
(* Python numbers: the elements of a series *)

Integer(n) == [int |-> n]

IsFloat(u) == "mant" \in DOMAIN u

\* float(u)
AsFloat(u) == IF IsFloat(u) THEN u ELSE FloatOfInt(u.int)

\* u < v
NumLess(u, v) ==
    IF IsFloat(u) \/ IsFloat(v) THEN FloatLess(AsFloat(u), AsFloat(v)) ELSE u.int < v.int

\* u + v
NumAdd(u, v) ==
    IF IsFloat(u) \/ IsFloat(v) THEN FloatAdd(AsFloat(u), AsFloat(v)) ELSE Integer(u.int + v.int)

\* the value of an int(); an int beyond 32 bits has none in this model
IntValue(r) == IF r.wide = 0 THEN r.value ELSE CHOOSE n \in {} : TRUE

RECURSIVE BisectLoop(_, _, _, _)
BisectLoop(a, v, lo, hi) ==
    IF lo < hi
    THEN LET mid == (lo + hi) \div 2
         IN  IF NumLess(a[mid + 1], v) THEN BisectLoop(a, v, mid + 1, hi)
                                       ELSE BisectLoop(a, v, lo, mid)
    ELSE lo

RECURSIVE BisectRightLoop(_, _, _, _)
BisectRightLoop(a, v, lo, hi) ==
    IF lo < hi
    THEN LET mid == (lo + hi) \div 2
         IN  IF NumLess(v, a[mid + 1]) THEN BisectRightLoop(a, v, lo, mid)
                                       ELSE BisectRightLoop(a, v, mid + 1, hi)
    ELSE lo

\* bisect_right in the place of bisect_left
BisectRight(a, v) == BisectRightLoop(a, Integer(v), 0, Len(a))

\* bisect.bisect_left(a, v) for an int v: 0-based insertion point
BisectLeft(a, v) == BisectLoop(a, Integer(v), 0, Len(a))

RECURSIVE MaxFrom(_, _, _)
MaxFrom(s, i, m) ==
    IF i > Len(s) THEN m ELSE MaxFrom(s, i + 1, IF NumLess(m, s[i]) THEN s[i] ELSE m)

\* max(s) of a non-empty list
PyMax(s) == MaxFrom(s, 2, s[1])

-----------------------------------------------------------------------------
(* Module load: POPULATION *)

\* lines 27-30: the rows from the i-th on; raised for the ValueError of int()
RECURSIVE ReadPopulation(_, _, _)
ReadPopulation(rows, i, pop) ==
    IF i > Len(rows) THEN [raised |-> FALSE, pop |-> pop]
    ELSE LET value == PyInt(rows[i].Value)
         IN  IF value.raised THEN [raised |-> TRUE, pop |-> pop]
             ELSE ReadPopulation(rows, i + 1, (rows[i].Country :> IntValue(value)) @@ pop)

-----------------------------------------------------------------------------
(* parse_arguments *)

NoArgs ==
    [countries |-> <<>>, confirmed |-> FALSE, deaths |-> FALSE, recovered |-> FALSE,
     all |-> FALSE, startdate |-> None, compare |-> FALSE, split_by_state |-> FALSE,
     relative |-> FALSE, list_countries |-> FALSE]

\* nargs="*" with a default: no positional argument gives ["Switzerland"]
WithDefaults(av) ==
    [av EXCEPT !.countries = IF av.countries = <<>> THEN <<Switzerland>> ELSE av.countries]

\* lines 104-107
WithMetrics(a) ==
    IF a.all
    THEN [a EXCEPT !.confirmed = TRUE, !.deaths = TRUE, !.recovered = TRUE]
    ELSE IF ~a.confirmed /\ ~a.deaths /\ ~a.recovered
         THEN [a EXCEPT !.confirmed = TRUE]
         ELSE a

\* --relative with --split-by-state is no longer rejected
OptionErrorCompareOnly(a) == IF a.compare /\ ~a.confirmed THEN "compare" ELSE ""

\* lines 109-113: the parser.error raised, "" for none
OptionError(a) ==
    IF a.compare /\ ~a.confirmed THEN "compare"
    ELSE IF a.relative /\ a.split_by_state THEN "split_relative"
    ELSE ""

ParseArgs(av) ==
    LET a == WithMetrics(WithDefaults(av))
    IN  [args |-> a, error |-> OptionError(a)]

-----------------------------------------------------------------------------
(* get_data_from_file *)

\* area in args.countries
InCountries(area, a) == \E i \in DOMAIN a.countries : a.countries[i] = area

\* line 142, y_value / (POPULATION[area] / 100000) in doubles; raised for the
\* ZeroDivisionError of a population of 0
Rescale(count, population) ==
    LET per == FloatDiv(FloatOfInt(population), FloatOfInt(PER_CAPITA))
    IN  IF IsZero(per) THEN [raised |-> TRUE, value |-> FloatZero(0)]
        ELSE [raised |-> FALSE, value |-> FloatDiv(FloatOfInt(count), per)]

\* lines 139-141
PopulationMissing(area, a, pop) == a.relative /\ area \notin DOMAIN pop

\* row.items() after the four pops: the date columns with the row's cells; of
\* a column name that occurs twice the dict keeps the first place and the
\* last cell
RowItems(header, cells) ==
    LET First(j) == \A i \in 1..(j - 1) : header[i] # header[j]
        firsts   == SelectSeq([j \in 1..Len(header) |-> j], First)
        Last(j)  == CHOOSE k \in j..Len(header) :
                        /\ header[k] = header[j]
                        /\ \A m \in (k + 1)..Len(header) : header[m] # header[j]
    IN  [n \in 1..Len(firsts) |->
            [date |-> header[firsts[n]], count |-> cells[Last(firsts[n])]]]

LoopRaised(error, x, y) == [raised |-> TRUE, error |-> error, x |-> x, y |-> y]

\* lines 132-143: one item of the row, its date parsed and its count read by
\* int(); raised with the x and y built so far for an exception: the
\* ValueError or OverflowError of a date, the ValueError of a count, the
\* Exception of an area without population ("population"), the
\* ZeroDivisionError.  A column before --startdate leaves x and y as they are.
ColumnItem(parsed, count, x, y, area, a, pop) ==
    IF parsed.raised THEN LoopRaised(parsed.error, x, y)
    ELSE IF a.startdate # None /\ DateLess(parsed.date, a.startdate)
         THEN [raised |-> FALSE, error |-> "", x |-> x, y |-> y]
         ELSE IF count.raised
              THEN LoopRaised("ValueError", Append(x, parsed.date), y)
              ELSE IF ~a.relative
                   THEN [raised |-> FALSE, error |-> "", x |-> Append(x, parsed.date),
                         y |-> Append(y, Integer(IntValue(count)))]
                   ELSE IF PopulationMissing(area, a, pop)
                        THEN LoopRaised("population", Append(x, parsed.date), y)
                        ELSE LET scaled == Rescale(IntValue(count), pop[area])
                             IN  [raised |-> scaled.raised,
                                  error  |-> IF scaled.raised THEN "ZeroDivisionError" ELSE "",
                                  x      |-> Append(x, parsed.date),
                                  y      |-> IF scaled.raised THEN y
                                             ELSE Append(y, scaled.value)]

\* lines 131-143: the loop over the items of one row, from the j-th on, r the
\* x and y built so far; it ends with the first exception
RECURSIVE ColumnLoop(_, _, _, _, _, _)
ColumnLoop(items, j, r, area, a, pop) ==
    IF r.raised \/ j > Len(items) THEN r
    ELSE ColumnLoop(items, j + 1,
                    ColumnItem(ParseDate(items[j].date), PyInt(items[j].count),
                               r.x, r.y, area, a, pop),
                    area, a, pop)

\* the state never put into the key
AreaKeyUnqualified(area, state, a) == area

\* f"{country} - {state}" for a row with a state under --split-by-state
AreaKey(area, state, a) ==
    IF a.split_by_state /\ state # <<>> THEN area \o Separator \o state ELSE area

\* lines 152-153
AddInto(old, y) ==
    [j \in 1..Len(old) |-> IF j <= Len(y) THEN NumAdd(old[j], y[j]) ELSE old[j]]

\* every row replaces the entry of its area
StoreOverwrite(d, key, x, y, a) == Put(d, key, [x |-> x, y |-> y])

\* lines 147-153
Store(d, key, x, y, a) ==
    IF ~Has(d, key) \/ a.split_by_state
    THEN Put(d, key, [x |-> x, y |-> y])
    ELSE Put(d, key, [x |-> d.val[key].x, y |-> AddInto(d.val[key].y, y)])

\* lines 144-153 for a row whose loop ended as s: the exception goes on, or
\* the row is stored
Stored(d, area, state, a, s) ==
    IF s.raised
    THEN [raised |-> TRUE, error |-> s.error, area |-> area, y |-> s.y, data |-> d]
    ELSE [raised |-> FALSE, error |-> "", area |-> area, y |-> s.y,
          data |-> Store(d, AreaKey(area, state, a), s.x, s.y, a)]

\* a row that is not asked for
Skipped(d, area) == [raised |-> FALSE, error |-> "", area |-> area, y |-> <<>>, data |-> d]

\* lines 123-153 for a row of the stripped area and state
Row(d, area, state, counts, header, a, pop) ==
    IF ~InCountries(area, a) THEN Skipped(d, area)
    ELSE Stored(d, area, state, a,
                ColumnLoop(RowItems(header, counts), 1,
                           [raised |-> FALSE, error |-> "", x |-> <<>>, y |-> <<>>],
                           area, a, pop))

\* a row of an area without population is skipped instead of raising
ProcessRowSkip(d, row, header, a, pop) ==
    IF a.relative /\ Strip(row.area) \notin DOMAIN pop
    THEN Skipped(d, Strip(row.area))
    ELSE Row(d, Strip(row.area), Strip(row.state), row.counts, header, a, pop)

\* lines 123-153: one row of the reader
ProcessRow(d, row, header, a, pop) ==
    Row(d, Strip(row.area), Strip(row.state), row.counts, header, a, pop)

-----------------------------------------------------------------------------
(* get_data *)

Selected(a, i) ==
    CASE i = 1 -> a.confirmed
      [] i = 2 -> a.deaths
      [] i = 3 -> a.recovered

\* the next file get_data reads, from position i on; 4 when none is left
RECURSIVE NextCat(_, _)
NextCat(a, i) == IF i > 3 THEN 4 ELSE IF Selected(a, i) THEN i ELSE NextCat(a, i + 1)

\* the metric is added to the areas data already holds, no area is created
RECURSIVE AddToDataKnownOnly(_, _, _, _)
AddToDataKnownOnly(d, sdata, key, i) ==
    IF i > Len(sdata.keys) THEN d
    ELSE LET area == sdata.keys[i]
         IN  IF Has(d, area)
             THEN AddToDataKnownOnly(Put(d, area, (key :> sdata.val[area]) @@ d.val[area]),
                                     sdata, key, i + 1)
             ELSE AddToDataKnownOnly(d, sdata, key, i + 1)

\* add_to_data(sdata, key)
RECURSIVE AddToData(_, _, _, _)
AddToData(d, sdata, key, i) ==
    IF i > Len(sdata.keys) THEN d
    ELSE LET area == sdata.keys[i]
             old  == IF Has(d, area) THEN d.val[area] ELSE <<>>
         IN  AddToData(Put(d, area, (key :> sdata.val[area]) @@ old), sdata, key, i + 1)


-----------------------------------------------------------------------------
(* get_shifts *)

\* first_at_100["index"] is None
NoIndex == -1

\* the comparison of line 204 turned round: the largest insertion point wins
RECURSIVE FirstAt100Largest(_, _, _)
FirstAt100Largest(d, i, first) ==
    IF i > Len(d.keys) THEN [raised |-> FALSE, name |-> first.name, index |-> first.index]
    ELSE LET area == d.keys[i]
         IN  IF "confirmed" \notin DOMAIN d.val[area]
             THEN [raised |-> TRUE, name |-> first.name, index |-> first.index]
             ELSE LET new_index == BisectLeft(d.val[area].confirmed.y, COMPARE_CONSTANT)
                  IN  IF first.index = NoIndex \/ new_index > first.index
                      THEN FirstAt100Largest(d, i + 1, [name |-> area, index |-> new_index])
                      ELSE FirstAt100Largest(d, i + 1, first)

\* lines 202-206: the loop from the i-th area on; KeyError for an area that
\* has no confirmed series
RECURSIVE FirstAt100(_, _, _)
FirstAt100(d, i, first) ==
    IF i > Len(d.keys) THEN [raised |-> FALSE, name |-> first.name, index |-> first.index]
    ELSE LET area == d.keys[i]
         IN  IF "confirmed" \notin DOMAIN d.val[area]
             THEN [raised |-> TRUE, name |-> first.name, index |-> first.index]
             ELSE LET new_index == BisectLeft(d.val[area].confirmed.y, COMPARE_CONSTANT)
                  IN  IF first.index = NoIndex \/ new_index < first.index
                      THEN FirstAt100(d, i + 1, [name |-> area, index |-> new_index])
                      ELSE FirstAt100(d, i + 1, first)

\* lines 208-219: the loop from the i-th area on; ValueError for max([])
RECURSIVE ShiftLoop(_, _, _, _)
ShiftLoop(d, i, first, sh) ==
    IF i > Len(d.keys) THEN [raised |-> FALSE, error |-> "", shifts |-> sh]
    ELSE LET area == d.keys[i]
             y    == d.val[area].confirmed.y
         IN  IF area = first.name
             THEN ShiftLoop(d, i + 1, first, (area :> 0) @@ sh)
             ELSE IF y = <<>>
                  THEN [raised |-> TRUE, error |-> "ValueError", shifts |-> sh]
                  ELSE IF NumLess(PyMax(y), Integer(COMPARE_CONSTANT))
                       THEN ShiftLoop(d, i + 1, first, (area :> 0) @@ sh)
                       ELSE ShiftLoop(d, i + 1, first,
                                (area :> BisectLeft(y, COMPARE_CONSTANT) - first.index) @@ sh)

GetShifts(d) ==
    LET first == FirstAt100(d, 1, [name |-> <<>>, index |-> NoIndex])
    IN  IF first.raised
        THEN [raised |-> TRUE, error |-> "KeyError", shifts |-> <<>>]
        ELSE ShiftLoop(d, 1, first, <<>>)

-----------------------------------------------------------------------------
(* prepare_data *)

\* a positive shift renumbers x and leaves y untrimmed
ApplyShiftKeepY(series, shift) ==
    LET x_axis   == Range(Len(series.x))
        orig_len == Len(series.x)
    IN  IF shift > 0
        THEN [x |-> PySlice(x_axis, 0, orig_len - shift), y |-> series.y]
        ELSE IF shift < 0
             THEN [x |-> PySlice(x_axis, shift, Len(x_axis)),
                   y |-> PySlice(series.y, 0, orig_len - shift)]
             ELSE [x |-> x_axis, y |-> series.y]

\* a positive shift cuts x at the front, like y: x starts at shift, not at 0
ApplyShiftCutX(series, shift) ==
    LET x_axis   == Range(Len(series.x))
        orig_len == Len(series.x)
    IN  IF shift > 0
        THEN [x |-> PySlice(x_axis, shift, orig_len),
              y |-> PySlice(series.y, shift, Len(series.y))]
        ELSE IF shift < 0
             THEN [x |-> PySlice(x_axis, shift, Len(x_axis)),
                   y |-> PySlice(series.y, 0, orig_len - shift)]
             ELSE [x |-> x_axis, y |-> series.y]

\* lines 240-251: one series of an area under the area's shift
ApplyShift(series, shift) ==
    LET x_axis   == Range(Len(series.x))
        orig_len == Len(series.x)
    IN  IF shift > 0
        THEN [x |-> PySlice(x_axis, 0, orig_len - shift),
              y |-> PySlice(series.y, shift, Len(series.y))]
        ELSE IF shift < 0
             THEN [x |-> PySlice(x_axis, shift, Len(x_axis)),
                   y |-> PySlice(series.y, 0, orig_len - shift)]
             ELSE [x |-> x_axis, y |-> series.y]

\* lines 238-251
ApplyShifts(d, sh) ==
    [keys |-> d.keys,
     val  |-> [area \in DOMAIN d.val |->
                  [category \in DOMAIN d.val[area] |->
                      ApplyShift(d.val[area][category], sh[area])]]]

\* next(iter(data[first_key])): the metrics are inserted in the order of Categories
FirstCategory(m) == Categories[CHOOSE i \in 1..3 :
                        /\ Categories[i] \in DOMAIN m
                        /\ \A j \in 1..(i - 1) : Categories[j] \notin DOMAIN m]

\* lines 225-235
Meta(d, a) ==
    LET first_key  == d.keys[1]
        second_key == FirstCategory(d.val[first_key])
        x          == d.val[first_key][second_key].x
    IN  IF ~a.compare
        THEN [xticks |-> x, xticks_labels |-> [i \in 1..Len(x) |-> DateLabel(x[i])]]
        ELSE [xticks |-> Range(Len(x)),
              xticks_labels |-> [i \in 1..Len(x) |-> DayLabel(i - 1)]]

PrepareData(d, a) ==
    IF ~a.compare
    THEN [raised |-> FALSE, error |-> "", shifts |-> <<>>, data |-> d, meta |-> Meta(d, a)]
    ELSE LET s == GetShifts(d)
         IN  IF s.raised
             THEN [raised |-> TRUE, error |-> s.error, shifts |-> <<>>, data |-> d,
                   meta |-> Meta(d, a)]
             ELSE [raised |-> FALSE, error |-> "", shifts |-> s.shifts,
                   data |-> ApplyShifts(d, s.shifts), meta |-> Meta(d, a)]


-----------------------------------------------------------------------------
(* Bounds and inputs *)

\* date columns of a wide table
NumCols == 3

\* rows of a wide table in the aggregation inputs
MaxRows == 3

A == <<65>>

B == <<66>>

C == <<67>>

\* "X" and "Y", two sub-areas
X == <<88>>

Y == <<89>>

\* "M/D/YY"
DateKey(month, day, year) == Str(month) \o <<47>> \o Str(day) \o <<47>> \o Str(year)

\* the j-th date column: 1/30/20, 1/31/20, 2/1/20, 2/2/20, ...
HeaderAt(j) == IF j <= 2 THEN DateKey(1, 29 + j, 20) ELSE DateKey(2, j - 2, 20)

Header(n) == [j \in 1..n |-> HeaderAt(j)]

\* --startdate 2020-01-31 drops the first column, 2021-01-01 drops them all
Cutoff == <<2020, 1, 31>>

LateCutoff == <<2021, 1, 1>>

Table(n, rows) == [header |-> Header(n), rows |-> rows]

NoTable == Table(NumCols, <<>>)

\* the cells of the i-th row of a table of n columns: 1,2,3 then 4,5,6 ...
CountsAt(i, n) == [j \in 1..n |-> Str(n * (i - 1) + j)]

\* Province/State and Country/Region as a file spells them, with a space, a
\* tab, a no-break space, a carriage return and an em space around the names;
\* a wide table has one row per area and sub-area
RawRows ==
    { <<<<32, 65, 9>>, <<>>>>, <<A, X>>, <<A, <<89, 160>>>>,
      <<B, <<8195>>>>, <<<<66, 13>>, X>>, <<B, Y>> }

Injective(f) == \A i, j \in DOMAIN f : i # j => f[i] # f[j]

\* the rows of A and one of B
FewRows == { r \in RawRows : Strip(r[1]) = A \/ r = <<B, Y>> }

\* up to MaxRows of the given rows, in every order
RowSeqs(raw) == { f \in UNION { [1..k -> raw] : k \in 0..MaxRows } : Injective(f) }

RowsOf(f, n) ==
    [i \in DOMAIN f |-> [area |-> f[i][1], state |-> f[i][2], counts |-> CountsAt(i, n)]]

PopBoth == <<[Country |-> A, Value |-> Str(50000)], [Country |-> B, Value |-> Str(100000)]>>

PopOnlyA == <<[Country |-> A, Value |-> Str(50000)]>>

\* a population that is no power of two times 100000: the quotients are rounded
PopRounded == <<[Country |-> A, Value |-> Str(8570000)], [Country |-> B, Value |-> Str(30000)]>>

Options(countries, metrics, flags, startdate) ==
    [countries |-> countries,
     confirmed |-> "c" \in metrics, deaths |-> "d" \in metrics,
     recovered |-> "r" \in metrics, all |-> "a" \in metrics,
     startdate |-> startdate,
     compare |-> "compare" \in flags, split_by_state |-> "split" \in flags,
     relative |-> "relative" \in flags, list_countries |-> "list" \in flags]

\* one confirmed table of any rows, read plain or split by state, or of a few
\* rows, read per capita
AggregateModes ==
    { <<{}, PopBoth, RawRows>>, <<{"split"}, PopBoth, RawRows>>,
      <<{"relative"}, PopOnlyA, FewRows>>, <<{"relative"}, PopRounded, FewRows>> }

AggregateInput(cs, m, sd, f) ==
    [argv    |-> Options(cs, {"c"}, m[1], sd),
     files   |-> [confirmed |-> Table(NumCols, RowsOf(f, NumCols)),
                  deaths |-> NoTable, recovered |-> NoTable],
     popfile |-> m[2]]

\* case counts around the threshold
Levels == {20, 100, 150}

Cells(counts) == [j \in DOMAIN counts |-> Str(counts[j])]

AlignRows(ys) ==
    [i \in DOMAIN ys |-> [area |-> <<A, B, C>>[i], state |-> <<>>, counts |-> Cells(ys[i])]]

DeathRows(k, n) == [i \in 1..k |-> [area |-> <<A, B>>[i], state |-> <<>>, counts |-> CountsAt(i, n)]]

\* --compare on one or two areas, every confirmed series over the levels of
\* the variant, sorted or not; deaths absent, of the same columns or one
\* column short; a start date that drops the first column or all of them
AlignVariants ==
    { [metrics |-> {"c"}, flags |-> {"compare"}, sd |-> None, dcols |-> NumCols,
       levels |-> {20, 100}],
      [metrics |-> {"c", "d"}, flags |-> {"compare"}, sd |-> None, dcols |-> NumCols,
       levels |-> Levels],
      [metrics |-> {"c", "d"}, flags |-> {"compare"}, sd |-> None, dcols |-> NumCols - 1,
       levels |-> {20, 100}],
      [metrics |-> {"c", "d"}, flags |-> {"compare"}, sd |-> Cutoff, dcols |-> NumCols,
       levels |-> {20, 100}],
      [metrics |-> {"c"}, flags |-> {"compare", "relative"}, sd |-> None, dcols |-> NumCols,
       levels |-> {20, 100}],
      [metrics |-> {"c"}, flags |-> {"compare"}, sd |-> LateCutoff, dcols |-> NumCols,
       levels |-> {100}] }

SeriesOver(levels, areas) == UNION { [1..k -> [1..NumCols -> levels]] : k \in areas }

AlignInput(v, ys) ==
    [argv    |-> Options(<<A, B>>, v.metrics, v.flags, v.sd),
     files   |-> [confirmed |-> Table(NumCols, AlignRows(ys)),
                  deaths |-> Table(v.dcols, DeathRows(Len(ys), v.dcols)),
                  recovered |-> NoTable],
     popfile |-> PopBoth]

\* --compare on three areas, every confirmed series over 20 and 100
ThreeAreaInput(ys) ==
    [argv    |-> Options(<<A, B, C>>, {"c"}, {"compare"}, None),
     files   |-> [confirmed |-> Table(NumCols, AlignRows(ys)),
                  deaths |-> NoTable, recovered |-> NoTable],
     popfile |-> PopBoth]

\* every combination of options over fixed small tables: A in all three, B in
\* deaths only, Switzerland in recovered only
OptionFiles ==
    [confirmed |-> Table(NumCols, <<[area |-> A, state |-> <<>>, counts |-> CountsAt(1, NumCols)]>>),
     deaths    |-> Table(NumCols, <<[area |-> A, state |-> <<>>, counts |-> CountsAt(1, NumCols)],
                                    [area |-> B, state |-> <<>>, counts |-> CountsAt(2, NumCols)]>>),
     recovered |-> Table(NumCols, <<[area |-> A, state |-> <<>>, counts |-> CountsAt(1, NumCols)],
                                    [area |-> Switzerland, state |-> <<>>,
                                     counts |-> CountsAt(2, NumCols)]>>)]

OptionInput(cs, ms, fs, pf) ==
    [argv |-> Options(cs, ms, fs, None), files |-> OptionFiles, popfile |-> pf]

\* date columns as a damaged or unusual file spells them: 2/30/20 and 4/31/20,
\* no days; 13/1/20 and 0/1/20, no months; 2/29/21, no leap year; 1/30/5, the
\* year 205; 1/30/20/1 and 1/30, not three parts; 1/ 30/20 and 1/30/20 with a
\* tab behind, which int() reads; 1/30/ 20, which it does not inside "20 20";
\* a month beyond the ints of C; 1/30/20 in Arabic-Indic digits
OddDates ==
    { DateKey(2, 30, 20), DateKey(4, 31, 20), DateKey(13, 1, 20), DateKey(0, 1, 20),
      DateKey(2, 29, 21), DateKey(2, 29, 20), DateKey(1, 30, 5),
      DateKey(1, 30, 20) \o <<47, 49>>, <<49, 47, 51, 48>>,
      <<49, 47, 32, 51, 48, 47, 50, 48>>, DateKey(1, 30, 20) \o <<9>>,
      <<49, 47, 51, 48, 47, 32, 50, 48>>,
      <<57, 57, 57, 57, 57, 57, 57, 57, 57, 57, 57>> \o <<47, 49, 47, 50, 48>>,
      <<1633, 47, 1635, 1632, 47, 1634, 1632>> }

\* cells: 7; "x"; empty; " 7 " between a no-break space and a tab; +7; 1_0;
\* 7.0; 7 in fullwidth digits behind zeros
OddCells ==
    { Str(7), <<120>>, <<>>, <<160, 55, 9>>, <<43, 55>>, <<49, 95, 48>>,
      <<55, 46, 48>>, <<65296, 65296, 65303>> }

\* populations: A's 50000; 0; "n/a"; none of A
OddPopulations ==
    { PopBoth, <<[Country |-> A, Value |-> Str(0)]>>,
      <<[Country |-> A, Value |-> <<110, 47, 97>>]>>,
      <<[Country |-> B, Value |-> Str(100000)]>> }

\* one row of A under the date columns: an odd one, 1/31/20 and the odd one
\* once more, whose cell is an odd one
OddInput(date, cell, flags, sd, pf) ==
    [argv    |-> Options(<<A>>, {"c"}, flags, sd),
     files   |-> [confirmed |-> [header |-> <<date, HeaderAt(2), date>>,
                                 rows   |-> <<[area |-> A, state |-> <<>>,
                                               counts |-> <<Str(1), Str(2), cell>>]>>],
                  deaths |-> NoTable, recovered |-> NoTable],
     popfile |-> pf]

-----------------------------------------------------------------------------
(* main *)

\* at: the position at which the process ended
Running == [how |-> "running", status |-> 0, at |-> "", area |-> <<>>, y |-> <<>>]

Exited(how, status, at) == [how |-> how, status |-> status, at |-> at, area |-> <<>>, y |-> <<>>]

\* the command line and the files of one run
Given(in) ==
    /\ argv = in.argv
    /\ files = in.files
    /\ popfile = in.popfile

Init ==
    /\ \/ \E cs \in {<<A>>, <<A, B>>}, m \in AggregateModes, sd \in {None, Cutoff} :
             \E f \in RowSeqs(m[3]) : Given(AggregateInput(cs, m, sd, f))
       \/ \E v \in AlignVariants :
             \E ys \in SeriesOver(v.levels, 1..2) : Given(AlignInput(v, ys))
       \/ \E ys \in SeriesOver({20, 100}, {3}) : Given(ThreeAreaInput(ys))
       \/ \E cs \in {<<>>, <<A>>, <<B>>, <<A, B>>, <<C>>},
             ms \in SUBSET {"c", "d", "r", "a"},
             fs \in SUBSET {"compare", "split", "relative", "list"},
             pf \in {PopBoth, PopOnlyA} :
             Given(OptionInput(cs, ms, fs, pf))
       \/ \E date \in OddDates, cell \in OddCells,
             fs \in {{}, {"relative"}, {"relative", "split"}},
             sd \in {None, Cutoff}, pf \in OddPopulations :
             Given(OddInput(date, cell, fs, sd, pf))
    /\ pc = "import"
    /\ POPULATION = <<>>
    /\ args = NoArgs
    /\ data = EmptyDict
    /\ cat = 4
    /\ rowIdx = 1
    /\ sub = EmptyDict
    /\ shifts = <<>>
    /\ prepared = [data |-> EmptyDict, meta |-> [xticks |-> <<>>, xticks_labels |-> <<>>]]
    /\ exit = Running
    /\ filesRead = {}
    /\ called = {}
    /\ rescaled = {}

\* lines 25-30, run when the module is loaded; the ValueError of a Value that
\* is no int ends the process there
LoadPopulation ==
    /\ pc = "import"
    /\ filesRead' = filesRead \cup {"population"}
    /\ \E r \in {ReadPopulation(popfile, 1, <<>>)} :
           IF r.raised
           THEN /\ exit' = Exited("ValueError", 1, "import")
                /\ pc' = "done"
                /\ POPULATION' = r.pop
           ELSE /\ POPULATION' = r.pop
                /\ pc' = "parse"
                /\ exit' = exit
    /\ UNCHANGED <<argv, files, popfile, args, data, cat, rowIdx, sub, shifts,
                   prepared, called, rescaled>>

\* line 339; parser.error prints the message and exits with status 2
ParseArguments ==
    /\ pc = "parse"
    /\ \E r \in {ParseArgs(argv)} :
           IF r.error # ""
           THEN /\ exit' = Exited(r.error, 2, "parse")
                /\ pc' = "done"
                /\ args' = args
           ELSE /\ args' = r.args
                /\ pc' = "main"
                /\ exit' = exit
    /\ UNCHANGED <<argv, files, popfile, POPULATION, data, cat, rowIdx, sub, shifts,
                   prepared, filesRead, called, rescaled>>

\* lines 341-343; get_countries reads the daily reports
ListCountries ==
    /\ pc = "main"
    /\ args.list_countries
    /\ filesRead' = filesRead \cup {"daily_reports"}
    /\ exit' = Exited("listed", 0, "main")
    /\ pc' = "done"
    /\ UNCHANGED <<argv, files, popfile, POPULATION, args, data, cat, rowIdx, sub,
                   shifts, prepared, called, rescaled>>

\* line 345, get_data up to its first file
GetData ==
    /\ pc = "main"
    /\ ~args.list_countries
    /\ data' = EmptyDict
    /\ cat' = NextCat(args, 1)
    /\ pc' = "get_data"
    /\ UNCHANGED <<argv, files, popfile, POPULATION, args, rowIdx, sub, shifts,
                   prepared, exit, filesRead, called, rescaled>>

\* lines 119-121
OpenFile ==
    /\ pc = "get_data"
    /\ cat <= 3
    /\ filesRead' = filesRead \cup {Categories[cat]}
    /\ sub' = EmptyDict
    /\ rowIdx' = 1
    /\ pc' = "rows"
    /\ UNCHANGED <<argv, files, popfile, POPULATION, args, data, cat, shifts,
                   prepared, exit, called, rescaled>>

\* lines 122-153, one row; no exception of the loop is caught anywhere, and
\* the counts of the row divided before it (line 142) have been divided
ReadRow ==
    /\ pc = "rows"
    /\ rowIdx <= Len(files[Categories[cat]].rows)
    /\ \E r \in {ProcessRow(sub, files[Categories[cat]].rows[rowIdx],
                              files[Categories[cat]].header, args, POPULATION)} :
           /\ rescaled' = IF args.relative /\ r.y # <<>>
                          THEN rescaled \cup {r.area} ELSE rescaled
           /\ IF r.raised
              THEN /\ exit' = [how |-> r.error, status |-> 1, at |-> "rows",
                               area |-> r.area, y |-> r.y]
                   /\ pc' = "done"
                   /\ UNCHANGED <<sub, rowIdx>>
              ELSE /\ sub' = r.data
                   /\ rowIdx' = rowIdx + 1
                   /\ UNCHANGED <<exit, pc>>
    /\ UNCHANGED <<argv, files, popfile, POPULATION, args, data, cat, shifts,
                   prepared, filesRead, called>>

\* line 154 and add_to_data, then the next selected file or get_data's return
ReturnFile ==
    /\ pc = "rows"
    /\ rowIdx > Len(files[Categories[cat]].rows)
    /\ data' = AddToData(data, sub, Categories[cat], 1)
    /\ cat' = NextCat(args, cat + 1)
    /\ pc' = IF cat' <= 3 THEN "get_data" ELSE "got"
    /\ UNCHANGED <<argv, files, popfile, POPULATION, args, rowIdx, sub, shifts,
                   prepared, exit, filesRead, called, rescaled>>

\* lines 347-351
NoData ==
    /\ pc = "got"
    /\ data.keys = <<>>
    /\ exit' = Exited("no_data", 1, "got")
    /\ pc' = "done"
    /\ UNCHANGED <<argv, files, popfile, POPULATION, args, data, cat, rowIdx, sub,
                   shifts, prepared, filesRead, called, rescaled>>

\* line 353; KeyError and ValueError end the run with a traceback, raised by
\* get_shifts before any series is touched.  prepare_data rewrites the dict it
\* is given and returns it: data is the aligned data from here on
CallPrepareData ==
    /\ pc = "got"
    /\ data.keys # <<>>
    /\ called' = called \cup {"prepare_data"}
    /\ \E r \in {PrepareData(data, args)} :
           IF r.raised
           THEN /\ exit' = Exited(r.error, 1, "prepare_data")
                /\ pc' = "done"
                /\ UNCHANGED <<data, shifts, prepared>>
           ELSE /\ data' = r.data
                /\ shifts' = r.shifts
                /\ prepared' = [data |-> r.data, meta |-> r.meta]
                /\ pc' = "plot"
                /\ exit' = exit
    /\ UNCHANGED <<argv, files, popfile, POPULATION, args, cat, rowIdx, sub,
                   filesRead, rescaled>>

\* plt.plot(x, y) of line 311 raises ValueError for an x and a y of different
\* lengths
PlotRaises(d) ==
    \E n \in DOMAIN d.keys :
        \E category \in DOMAIN d.val[d.keys[n]] :
            Len(d.val[d.keys[n]][category].x) # Len(d.val[d.keys[n]][category].y)

\* line 355; the ValueError of the renderer ends the run with a traceback
Plot ==
    /\ pc = "plot"
    /\ called' = called \cup {"plot"}
    /\ IF PlotRaises(prepared.data)
       THEN /\ exit' = Exited("ValueError", 1, "plot")
            /\ pc' = "done"
       ELSE /\ pc' = "show"
            /\ exit' = exit
    /\ UNCHANGED <<argv, files, popfile, POPULATION, args, data, cat, rowIdx, sub,
                   shifts, prepared, filesRead, rescaled>>

\* lines 356-359: the window is closed, or the user interrupts
Show ==
    /\ pc = "show"
    /\ called' = called \cup {"show"}
    /\ \E how \in {"shown", "interrupted"} : exit' = Exited(how, 0, "show")
    /\ pc' = "done"
    /\ UNCHANGED <<argv, files, popfile, POPULATION, args, data, cat, rowIdx, sub,
                   shifts, prepared, filesRead, rescaled>>

Next ==
    \/ LoadPopulation
    \/ ParseArguments
    \/ ListCountries
    \/ GetData
    \/ OpenFile
    \/ ReadRow
    \/ ReturnFile
    \/ NoData
    \/ CallPrepareData
    \/ Plot
    \/ Show

Spec == Init /\ [][Next]_vars

-----------------------------------------------------------------------------
(* Vocabulary of the properties *)

\* the date columns get_data_from_file keeps, in order: the date of each and
\* the place of its cell in a row
KeptCols(header, a) ==
    LET Keep(item) ==
            /\ ~ParseDate(item.date).raised
            /\ ~(a.startdate # None /\ DateLess(ParseDate(item.date).date, a.startdate))
    IN  SelectSeq(RowItems(header, [j \in DOMAIN header |-> j]), Keep)

KeptDates(kept) == [c \in DOMAIN kept |-> ParseDate(kept[c].date).date]

\* the count a cell spells
CountOf(cell) == PyInt(cell).value

\* the count per 100000 residents
PerCapita(cell, area) == Rescale(CountOf(cell), POPULATION[area]).value

\* the file get_data_from_file is reading and the rows it has consumed
CurrentFile == files[Categories[cat]]

RowsRead == 1..(rowIdx - 1)

FileDone == pc = "rows" /\ rowIdx > Len(CurrentFile.rows)

\* the cell of the i-th row of the file in the column of place j
Cell(i, j) == CurrentFile.rows[i].counts[j]

\* the sum of the counts of the rows S in the column of place j
RECURSIVE SumCounts(_, _)
SumCounts(S, j) ==
    IF S = {} THEN 0
    ELSE LET i == CHOOSE i \in S : TRUE
         IN  CountOf(Cell(i, j)) + SumCounts(S \ {i}, j)

\* the per-capita values of the rows order[1], ..., order[n] in the column of
\* place j, added up in this order
RECURSIVE SumPerCapita(_, _, _, _)
SumPerCapita(order, n, j, area) ==
    IF n = 1 THEN PerCapita(Cell(order[1], j), area)
    ELSE FloatAdd(SumPerCapita(order, n - 1, j, area), PerCapita(Cell(order[n], j), area))

\* the rows S in every order
Orders(S) == { f \in [1..Cardinality(S) -> S] : Injective(f) }

\* the rows S in the order of the file
FileOrder(S) == CHOOSE f \in Orders(S) : \A i, j \in DOMAIN f : i < j => f[i] < f[j]

\* the rows read of the area a
RowsOfArea(a) == { i \in RowsRead : Strip(CurrentFile.rows[i].area) = a }

\* the series of the area a over the kept columns when its rows are summed
\* in the given order
SeriesInOrder(a, order, kept) ==
    [c \in DOMAIN kept |->
        IF args.relative THEN SumPerCapita(order, Len(order), kept[c].count, a)
        ELSE Integer(SumCounts(RowsOfArea(a), kept[c].count))]

\* one series per requested area that has a row, none for any other area
OneSeriesPerArea ==
    /\ Injective(sub.keys)
    /\ \A n \in DOMAIN sub.keys :
          InCountries(sub.keys[n], args) /\ RowsOfArea(sub.keys[n]) # {}
    /\ \A n \in DOMAIN args.countries :
          RowsOfArea(args.countries[n]) # {} => Has(sub, args.countries[n])

\* equal as numbers, an int and a float alike
NumEqual(u, v) == ~NumLess(u, v) /\ ~NumLess(v, u)

\* C1 as stated: without --split-by-state, what get_data_from_file has built
\* from the rows read so far (at the end of the file: what it returns) holds
\* exactly one series per requested area that has a row, its value at every
\* kept date column the sum of the counts of all rows of the area in that
\* column; no other area has an entry.
C1_AreaSumsItsRows ==
    (pc = "rows" /\ ~args.split_by_state) =>
        LET kept == KeptCols(CurrentFile.header, args)
        IN  /\ OneSeriesPerArea
            /\ \A n \in DOMAIN args.countries :
                  LET a == args.countries[n]
                  IN  RowsOfArea(a) # {} =>
                          /\ sub.val[a].x = KeptDates(kept)
                          /\ Len(sub.val[a].y) = Len(kept)
                          /\ \A c \in DOMAIN kept :
                                NumEqual(sub.val[a].y[c],
                                         Integer(SumCounts(RowsOfArea(a), kept[c].count)))

\* C1, amended: without --split-by-state there is exactly one series per
\* requested area that has a row and none for any other area.  Without
\* --relative its value at every kept date column is the sum of the counts of
\* all rows of the area, whatever their number and order.  With --relative it
\* is the floating-point sum, in the order of the rows in the file, of the
\* rows' counts each divided by (population / 100000).
C1_AreaSumsItsRowsInFileOrder ==
    (pc = "rows" /\ ~args.split_by_state) =>
        LET kept == KeptCols(CurrentFile.header, args)
        IN  /\ OneSeriesPerArea
            /\ \A n \in DOMAIN args.countries :
                  LET a == args.countries[n]
                  IN  RowsOfArea(a) # {} =>
                          /\ sub.val[a].x = KeptDates(kept)
                          /\ sub.val[a].y = SeriesInOrder(a, FileOrder(RowsOfArea(a)), kept)

\* the file is read to its end, A has three rows among rows of B that were
\* or were not asked for, the sums are of per-capita values and another order
\* of A's rows would have given another series
C1_Witness ==
    /\ FileDone
    /\ ~args.split_by_state /\ args.relative
    /\ Cardinality(RowsOfArea(A)) = 3
    /\ Has(sub, A)
    /\ \E order \in Orders(RowsOfArea(A)) :
          sub.val[A].y # SeriesInOrder(A, order, KeptCols(CurrentFile.header, args))

\* the sums are of plain counts: A has two rows or more among rows of B that
\* was not asked for
C1_CountsSummed ==
    /\ FileDone
    /\ ~args.split_by_state /\ ~args.relative
    /\ args.countries = <<A>>
    /\ Cardinality(RowsOfArea(A)) >= 2
    /\ \E i \in RowsRead : Strip(CurrentFile.rows[i].area) = B
    /\ Has(sub, A)

\* C2: with --split-by-state every row of a requested area has its own
\* series holding that row's counts at the kept columns, under the key
\* "<area> - <state>" when the trimmed state is not empty and under the area
\* name when it is; nothing is summed.
C2_RowKeepsItsSeries ==
    (pc = "rows" /\ args.split_by_state) =>
        LET rows == CurrentFile.rows
            kept == KeptCols(CurrentFile.header, args)
            Asked == { i \in RowsRead : InCountries(Strip(rows[i].area), args) }
            KeyOf(i) == IF Strip(rows[i].state) = <<>>
                        THEN Strip(rows[i].area)
                        ELSE Strip(rows[i].area) \o <<32, 45, 32>> \o Strip(rows[i].state)
        IN  /\ Injective(sub.keys)
            /\ Len(sub.keys) = Cardinality(Asked)
            /\ \A i \in Asked :
                  /\ Has(sub, KeyOf(i))
                  /\ sub.val[KeyOf(i)].x = KeptDates(kept)
                  /\ sub.val[KeyOf(i)].y =
                        [c \in DOMAIN kept |-> Integer(CountOf(Cell(i, kept[c].count)))]

\* two sub-areas of A and A's row without a sub-area, all three read: the
\* keys are "A", "A - X" and "A - Y"
C2_Witness ==
    /\ FileDone
    /\ args.split_by_state
    /\ Has(sub, <<65>>)
    /\ Has(sub, <<65, 32, 45, 32, 88>>)
    /\ Has(sub, <<65, 32, 45, 32, 89>>)
    /\ sub.val[<<65, 32, 45, 32, 88>>].y # sub.val[<<65, 32, 45, 32, 89>>].y

-----------------------------------------------------------------------------
(* Alignment *)

\* prepare_data has returned from its --compare branch: data holds the
\* aligned series
Aligned ==
    /\ args.compare
    /\ "prepare_data" \in called
    /\ pc \in {"plot", "show", "done"}
    /\ exit.how \in {"running", "shown", "interrupted"}

\* the step of line 353 in which prepare_data aligns: data is what get_data
\* returned, data' the aligned series and shifts' the offsets of get_shifts
Aligning == args.compare /\ pc = "got" /\ pc' = "plot"

\* the confirmed table holds this row of counts for the area
GivenConfirmed(area, ys) ==
    \E i \in DOMAIN files.confirmed.rows :
        /\ files.confirmed.rows[i].area = area
        /\ files.confirmed.rows[i].counts = [j \in DOMAIN ys |-> Str(ys[j])]

\* the counts are plotted as they are given, every column of them
Plain == ~args.relative /\ args.startdate = None

ConfirmedOf(d, area) == d.val[area].confirmed.y

NonDecreasing(y) == \A i, j \in DOMAIN y : i <= j => ~NumLess(y[j], y[i])

Below(v) == NumLess(v, Integer(100))

Reaches(y) == \E i \in DOMAIN y : ~Below(y[i])

\* p(a): the smallest 0-based index whose value is at least 100, the length
\* when there is none
Crossing(y) ==
    IF Reaches(y)
    THEN (CHOOSE i \in DOMAIN y : ~Below(y[i]) /\ \A j \in 1..(i - 1) : Below(y[j])) - 1
    ELSE Len(y)

AreasOf(d) == { d.keys[i] : i \in DOMAIN d.keys }

MinCrossing(d) ==
    CHOOSE m \in { Crossing(ConfirmedOf(d, b)) : b \in AreasOf(d) } :
        \A b \in AreasOf(d) : m <= Crossing(ConfirmedOf(d, b))

SortedInput(d) ==
    \A a \in AreasOf(d) : ConfirmedOf(d, a) # <<>> /\ NonDecreasing(ConfirmedOf(d, a))

\* C3: on non-empty, non-decreasing confirmed series get_shifts gives every
\* area p(a) minus the smallest p of all areas, and 0 to an area that never
\* reaches 100.
C3_OffsetIsCrossingDifference ==
    [][(Aligning /\ SortedInput(data)) =>
          \A a \in AreasOf(data) :
              shifts'[a] = IF Reaches(ConfirmedOf(data, a))
                           THEN Crossing(ConfirmedOf(data, a)) - MinCrossing(data)
                           ELSE 0]_vars

\* A crosses at index 1 and B at index 2: offsets 0 and 1
C3_Witness ==
    /\ Aligned /\ Plain
    /\ AreasOf(data) = {A, B}
    /\ GivenConfirmed(A, <<20, 100, 150>>)
    /\ GivenConfirmed(B, <<20, 20, 150>>)
    /\ shifts[A] = 0 /\ shifts[B] = 1

\* an area that never reaches 100 beside one that starts above it: its own
\* crossing position minus the smallest is not 0, its offset is
C3_BelowThresholdReached ==
    /\ Aligned /\ Plain
    /\ AreasOf(data) = {A, B}
    /\ GivenConfirmed(A, <<20, 20, 20>>)
    /\ GivenConfirmed(B, <<100, 100, 150>>)
    /\ shifts[A] = 0 /\ shifts[B] = 0

\* C4: after prepare_data with --compare on non-decreasing confirmed series,
\* the aligned confirmed series of every area that reaches 100 first reaches
\* it at one and the same index, the smallest crossing index of all areas
\* (the reference area's), and the x of that sample is that index.
C4_CrossingsLineUp ==
    [][(Aligning /\ \A a \in AreasOf(data) : NonDecreasing(ConfirmedOf(data, a))) =>
          \A a \in AreasOf(data) :
              Reaches(ConfirmedOf(data, a)) =>
                  /\ Crossing(data'.val[a].confirmed.y) = MinCrossing(data)
                  /\ Reaches(data'.val[a].confirmed.y)
                  /\ data'.val[a].confirmed.x[MinCrossing(data) + 1] = MinCrossing(data)]_vars

\* two areas that reach 100 at different indices before the alignment, 0 and
\* 2, and at index 0 after it
C4_Witness ==
    /\ Aligned /\ Plain
    /\ AreasOf(data) = {A, B}
    /\ GivenConfirmed(A, <<100, 100, 100>>)
    /\ GivenConfirmed(B, <<20, 20, 100>>)
    /\ shifts[B] = 2
    /\ data.val[B].confirmed = [x |-> <<0>>, y |-> <<Integer(100)>>]
    /\ data.val[A].confirmed.x = <<0, 1, 2>>

SameLengths(m) == \A c, e \in DOMAIN m : Len(m[c].y) = Len(m[e].y) /\ Len(m[c].x) = Len(m[c].y)

\* C8: an area of positive offset k whose series all have one length n >= k
\* ends with, in every metric, y without its first k samples and x = 0..n-k-1;
\* an area of offset 0 keeps every y and gets x = 0..n-1.
C8_PositiveOffsetTrimsFront ==
    [][Aligning =>
          \A a \in AreasOf(data) :
              /\ DOMAIN data'.val[a] = DOMAIN data.val[a]
              /\ \A c \in DOMAIN data.val[a] :
                    /\ (/\ shifts'[a] > 0
                        /\ SameLengths(data.val[a])
                        /\ Len(data.val[a][c].y) >= shifts'[a]) =>
                             /\ Len(data'.val[a][c].y) = Len(data.val[a][c].y) - shifts'[a]
                             /\ Len(data'.val[a][c].x) = Len(data.val[a][c].y) - shifts'[a]
                             /\ \A i \in 1..(Len(data.val[a][c].y) - shifts'[a]) :
                                   /\ data'.val[a][c].y[i] = data.val[a][c].y[i + shifts'[a]]
                                   /\ data'.val[a][c].x[i] = i - 1
                    /\ shifts'[a] = 0 =>
                             /\ data'.val[a][c].y = data.val[a][c].y
                             /\ data'.val[a][c].x =
                                    [i \in 1..Len(data.val[a][c].x) |-> i - 1]]_vars

\* B is shifted by one and has lost the first sample of its confirmed and of
\* its deaths, which had the same length
C8_Witness ==
    /\ Aligned /\ Plain
    /\ Has(data, B) /\ Has(data, A)
    /\ DOMAIN data.val[B] = {"confirmed", "deaths"}
    /\ Len(files.confirmed.header) = Len(files.deaths.header)
    /\ shifts[B] = 1 /\ shifts[A] = 0
    /\ Len(data.val[B].deaths.y) = Len(files.deaths.header) - 1
    /\ Len(data.val[B].confirmed.y) = Len(files.confirmed.header) - 1
    /\ data.val[B].deaths.x = Range(Len(files.deaths.header) - 1)

\* the first area, in iteration order, of the smallest insertion point
Reference(d) ==
    d.keys[CHOOSE i \in DOMAIN d.keys :
              /\ \A j \in DOMAIN d.keys :
                    BisectLeft(ConfirmedOf(d, d.keys[i]), 100)
                        <= BisectLeft(ConfirmedOf(d, d.keys[j]), 100)
              /\ \A j \in 1..(i - 1) :
                    BisectLeft(ConfirmedOf(d, d.keys[j]), 100)
                        > BisectLeft(ConfirmedOf(d, d.keys[i]), 100)]

\* C10: whatever the confirmed series, sorted or not, no offset get_shifts
\* returns is negative and the reference area has offset 0, so prepare_data
\* never applies a negative offset.  (Before get_shifts has run there is no
\* offset at all.)
C10_OffsetsNeverNegative ==
    [][/\ \A a \in DOMAIN shifts' : shifts'[a] >= 0
       /\ Aligning => /\ DOMAIN shifts' = AreasOf(data)
                      /\ shifts'[Reference(data)] = 0]_vars

\* B is the reference although it comes second, A is not sorted and is shifted
C10_Witness ==
    /\ Aligned /\ Plain
    /\ AreasOf(data) = {A, B}
    /\ GivenConfirmed(A, <<100, 20, 20>>)
    /\ GivenConfirmed(B, <<100, 100, 100>>)
    /\ shifts[B] = 0
    /\ shifts[A] = 3


-----------------------------------------------------------------------------
(* Errors and exits *)

\* the run got past the command line and did not stop at --list-countries
ReadTables == pc = "done" /\ exit.at \notin {"import", "parse", "main"}

SelectedFiles == { Categories[i] : i \in { j \in 1..3 : Selected(args, j) } }

\* a requested area has a row in a file of a selected metric
Appears(area) ==
    \E c \in SelectedFiles :
        \E i \in DOMAIN files[c].rows : Strip(files[c].rows[i].area) = area

Requested == { args.countries[i] : i \in DOMAIN args.countries }

\* a requested area without population whose row has a date column to rescale
MissingWithCounts ==
    { a \in Requested :
        /\ a \notin DOMAIN POPULATION
        /\ \E c \in SelectedFiles :
              /\ KeptCols(files[c].header, args) # <<>>
              /\ \E i \in DOMAIN files[c].rows : Strip(files[c].rows[i].area) = a }

\* the run ended in the traceback of a date or a count that does not parse or
\* of a population of 0
ParseTraceback ==
    exit.at = "rows" /\ exit.how \in {"ValueError", "OverflowError", "ZeroDivisionError"}

\* C5 as stated: under --relative a requested area absent from the
\* population table aborts the whole run with an error naming it, and no
\* chart is produced.  The no-data message, which lists the requested areas,
\* and the traceback of a cell that does not parse are counted as such an
\* error.
C5_AnyMissingAreaAborts ==
    (ReadTables /\ args.relative /\ \E a \in Requested : a \notin DOMAIN POPULATION) =>
        /\ exit.how = "population" \/ exit.how = "no_data" \/ ParseTraceback
        /\ exit.status # 0
        /\ called = {}

\* the rows of a file of a selected metric that reach the population check
\* and fail it: the area is asked for and has no population, and the file has
\* a kept date column
MissingRows(c) ==
    { i \in DOMAIN files[c].rows :
        /\ c \in SelectedFiles
        /\ KeptCols(files[c].header, args) # <<>>
        /\ Strip(files[c].rows[i].area) \in Requested
        /\ Strip(files[c].rows[i].area) \notin DOMAIN POPULATION }

\* C5, amended: under --relative, if a requested area absent from the
\* population table has a row with a kept date column in a file read for a
\* selected metric, a run that gets to read its files aborts with status 1 in
\* the row loop and neither prepare_data nor the renderer is ever invoked.
\* The exception is the one of the population check, unless a date or a count
\* that does not parse or a population of 0 has raised before it; the
\* exception of the population check names the area of the first such row
\* met, none of whose counts has been rescaled.
C5_MissingAreaWithCountsAborts ==
    /\ (args.relative /\ MissingWithCounts # {}) => called = {}
    /\ (ReadTables /\ args.relative /\ MissingWithCounts # {}) =>
          /\ exit.at = "rows"
          /\ exit.status = 1
          /\ exit.how = "population" \/ ParseTraceback
    /\ exit.how = "population" =>
          /\ args.relative
          /\ exit.status = 1
          /\ exit.area \in MissingWithCounts
          /\ \A i \in 1..(cat - 1) : MissingRows(Categories[i]) = {}
          /\ rowIdx \in MissingRows(Categories[cat])
          /\ \A i \in MissingRows(Categories[cat]) : rowIdx <= i
          /\ exit.area = Strip(CurrentFile.rows[rowIdx].area)
          /\ exit.y = <<>>
          /\ exit.area \notin rescaled
          /\ ~Has(sub, exit.area) /\ ~Has(data, exit.area)
          /\ called = {}

\* the run has rescaled A's counts and then aborts on B
C5_Witness ==
    /\ exit.how = "population"
    /\ exit.area = B
    /\ A \in rescaled
    /\ Has(sub, A)

\* the configuration errors of parse_arguments, on the options as given
InvalidOptions ==
    \/ argv.compare /\ ~(argv.all \/ argv.confirmed \/ (~argv.deaths /\ ~argv.recovered))
    \/ argv.relative /\ argv.split_by_state

\* C6 as stated: no input file, the population table included, has been read
\* when the configuration error is raised.
C6_NoFileReadBeforeError ==
    exit.status = 2 => filesRead = {}

\* C6, amended: an invalid combination of options ends the run in
\* parse_arguments with status 2 before any wide table or daily report is
\* read; the population table has been read by then, when the module was
\* loaded, and it is the only file read.  (A population table that does not
\* load ends the run before the options are looked at.)
C6_OnlyPopulationReadBeforeError ==
    /\ (InvalidOptions /\ pc \notin {"import", "parse"}) =>
          /\ pc = "done"
          /\ filesRead = {"population"}
          /\ called = {}
          /\ \/ exit.status = 2 /\ exit.how \in {"compare", "split_relative"}
             \/ exit = Exited("ValueError", 1, "import")
    /\ exit.status = 2 => InvalidOptions

\* --relative with --split-by-state has been rejected
C6_Witness ==
    /\ pc = "done"
    /\ exit = Exited("split_relative", 2, "parse")
    /\ argv.relative /\ argv.split_by_state /\ ~argv.compare
    /\ filesRead = {"population"}

\* C7: a run that reads the tables of the selected metrics and finds none of
\* the requested areas in them ends with the no-data exit, status 1, and
\* never invokes prepare_data, plot or show; a run in which a requested area
\* appears in a selected table does not take the no-data exit.
C7_NoDataExit ==
    /\ (pc \notin {"import", "parse"} /\ \A a \in Requested : ~Appears(a)) =>
          called = {}
    /\ ReadTables =>
          /\ (\A a \in Requested : ~Appears(a)) =>
                exit.how = "no_data" /\ exit.status = 1 /\ called = {}
          /\ (\E a \in Requested : Appears(a)) => exit.how # "no_data"

\* B was asked for with confirmed only, where it has no row: no data
C7_Witness ==
    /\ pc = "done"
    /\ exit.how = "no_data"
    /\ args.countries = <<B>>
    /\ filesRead = {"population", "confirmed"}
    /\ \E i \in DOMAIN files.deaths.rows : Strip(files.deaths.rows[i].area) = B

=============================================================================
